---- MODULE Spec2Model ----
(***************************************************************************)
(* Model of meta-dm-bot: the in-memory delivery queue (metaProcessor.ts,   *)
(* SimpleMessageQueue / processMetaMessage / queueMessage) and the webhook *)
(* endpoint handler (webhookController.ts, receiveWebhook).                *)
(*                                                                         *)
(* The program runs on one JavaScript event loop.  A step of the model is  *)
(* one run-to-suspension of a piece of code: from the point where it is    *)
(* entered or resumed up to its next `await` (or its return).              *)
(***************************************************************************)
EXTENDS Integers, Sequences, FiniteSets, TLC

\* ---------------------------------------------------------------- bounds
\* number of add()/queueMessage() calls explored
MaxEnq == 3
\* number of webhook POSTs explored
MaxReq == 1
\* longest `entry` array of a webhook payload explored
MaxEntries == 2
\* number of verification GETs explored
MaxVerify == 2
\* number of direct MetaService.sendMessage calls explored
MaxSend == 2
\* number of webhook POSTs in flight at the same time explored
MaxConc == 2

\* ------------------------------------------------------- program constants
\* setTimeout(resolve, 1000) in processQueue
PacingMs == 1000
\* granularity of the model's clock
TickMs == PacingMs \div 2

\* a JavaScript `undefined` in a string-valued slot
Undefined == "<undefined>"
\* JavaScript truthiness of a string-or-undefined value
Truthy(s) == s \notin {Undefined, ""}

\* values process.env.META_ACCESS_TOKEN can have
Tokens == {Undefined, "tok"}

\* arguments given to queueMessage(psid, text, instagramAccountId)
JobInputs ==
  { [psid |-> "u1", text |-> "hi", instagramAccountId |-> Undefined],
    [psid |-> "u2", text |-> "yo", instagramAccountId |-> "ig1"] }

\* ways an issued provider request can fail (axios.post rejects)
HttpFailures == {"provider", "transport", "timeout"}

VARIABLES
  queue,       \* SimpleMessageQueue.queue : the buffer, head first
  processing,  \* SimpleMessageQueue.processing : the single-flight flag
  loops,       \* activations of processQueue suspended at an await
  calls,       \* every processMetaMessage invocation, in order of start
  enqueued,    \* every job handed to add(), in order of the add() calls
  addCalls,    \* state of the promise returned by each add() call
  token,       \* process.env.META_ACCESS_TOKEN
  sinceEnd,    \* clock: ms since the last attempt ended, read up to PacingMs
  reqs,        \* the webhook POSTs received so far, each with its progress
  verifyEnv,   \* process.env.VERIFY_TOKEN when webhookController was loaded
  verifs,      \* the verification GETs answered so far, each with its response
  sends        \* direct calls of metaService.sendMessage, each with its outcome

queueVars == <<queue, processing, loops, calls, enqueued, addCalls, token, sinceEnd>>
webVars == <<reqs>>
verifyVars == <<verifyEnv, verifs>>
sendVars == <<sends>>
vars == <<queue, processing, loops, calls, enqueued, addCalls, token, sinceEnd, reqs,
          verifyEnv, verifs, sends>>

\* ------------------------------------------------------ processMetaMessage
\* One invocation of processMetaMessage(job), run up to its first
\* suspension: without a usable credential it throws before any request is
\* issued (its promise is already rejected); otherwise it has called
\* metaService.sendMessage, whose axios.post is now in flight.
processMetaMessageNoTokenCheck(job, tk) ==
  [job |-> job, tok |-> tk, http |-> TRUE, st |-> "pending", cause |-> "none"]
\* a processor that uses the credential in force when the item was queued
\* (readable from the item's text in the runs that note it there)
processMetaMessageEnqueueToken(job, tk) ==
  IF job.text = "queued without credential"
    THEN [job |-> job, tok |-> Undefined, http |-> FALSE, st |-> "failed",
          cause |-> "credential"]
    ELSE [job |-> job, tok |-> "tok", http |-> TRUE, st |-> "pending",
          cause |-> "none"]
processMetaMessage(job, tk) ==
  IF ~Truthy(tk)
    THEN [job |-> job, tok |-> tk, http |-> FALSE, st |-> "failed",
          cause |-> "credential"]
    ELSE [job |-> job, tok |-> tk, http |-> TRUE, st |-> "pending",
          cause |-> "none"]

\* ------------------------------------------------------ SimpleMessageQueue
\* queue.shift(): the item taken and the buffer left
ShiftLifo(q) == [item |-> q[Len(q)], rest |-> SubSeq(q, 1, Len(q) - 1)]
ShiftPeek(q) == [item |-> Head(q), rest |-> q]
ShiftDropAll(q) == [item |-> Head(q), rest |-> <<>>]
Shift(q) == [item |-> Head(q), rest |-> Tail(q)]

\* `this.processing = true` at the entry of the drain loop
FlagNeverSet == FALSE
FlagOnEntry == TRUE

\* The `while (this.queue.length > 0)` test and, when it passes, the body
\* up to `await processMetaMessage(jobData)`; when it fails, the exit
\* `this.processing = false`.  lid names the activation, p is the flag.
WhileStep(lid, q, cs, p) ==
  IF Len(q) > 0
    THEN [queue |-> Shift(q).rest,
          calls |-> Append(cs, processMetaMessage(Shift(q).item, token)),
          loops |-> {[lid |-> lid, pc |-> "awaitSend", cur |-> Len(cs) + 1, left |-> 0]},
          processing |-> p,
          sinceEnd |-> IF Truthy(token) THEN sinceEnd ELSE 0]
    ELSE [queue |-> q, calls |-> cs, loops |-> {}, processing |-> FALSE,
          sinceEnd |-> sinceEnd]

\* processQueue() from its entry to its first suspension (or return)
processQueue(lid, q, cs, p) ==
  IF p \/ Len(q) = 0
    THEN [queue |-> q, calls |-> cs, loops |-> {}, processing |-> p,
          sinceEnd |-> sinceEnd]
    ELSE WhileStep(lid, q, cs, FlagOnEntry)

\* the catch block of the drain loop: log, then go on with the while test
CatchRethrow(l, q, cs, p) ==
  [queue |-> q, calls |-> cs, loops |-> {}, processing |-> p, sinceEnd |-> sinceEnd]
CatchStopsLoop(l, q, cs, p) ==
  [queue |-> q, calls |-> cs, loops |-> {}, processing |-> FALSE, sinceEnd |-> sinceEnd]
CatchRequeue(l, q, cs, p) ==
  WhileStep(l.lid, Append(q, cs[l.cur].job), cs, p)
CatchAndContinue(l, q, cs, p) == WhileStep(l.lid, q, cs, p)

\* state of the promise add() returns, at the moment control is back with
\* the caller: add() awaits nothing and nothing in it throws
AddResultAwaitsDrain(startedLoop) == IF startedLoop THEN "pending" ELSE "resolved"
AddResult(startedLoop) == "resolved"

\* add(jobData) / queueMessage(...): push, then start the drain loop unless
\* the flag says one is active
Add(in) ==
  /\ Len(enqueued) < MaxEnq
  /\ LET job == [id |-> Len(enqueued) + 1, psid |-> in.psid, text |-> in.text,
                 instagramAccountId |-> in.instagramAccountId]
         q1  == Append(queue, job)
         r   == IF ~processing
                  THEN processQueue(job.id, q1, calls, processing)
                  ELSE [queue |-> q1, calls |-> calls, loops |-> {},
                        processing |-> processing, sinceEnd |-> sinceEnd]
     IN /\ queue' = r.queue
        /\ calls' = r.calls
        /\ loops' = loops \cup r.loops
        /\ processing' = r.processing
        /\ enqueued' = Append(enqueued, job)
        /\ sinceEnd' = r.sinceEnd
        /\ addCalls' = Append(addCalls, AddResult(r.loops # {}))
  /\ UNCHANGED <<token, reqs, verifyVars, sendVars>>

\* the provider request of call k completes (response, error or timeout)
CallSettle(k, outcome) ==
  /\ k \in 1..Len(calls)
  /\ calls[k].st = "pending"
  /\ calls' = [calls EXCEPT ![k].st = IF outcome = "ok" THEN "ok" ELSE "failed",
                            ![k].cause = IF outcome = "ok" THEN "none" ELSE outcome]
  /\ sinceEnd' = 0
  /\ UNCHANGED <<queue, processing, loops, enqueued, addCalls, token, reqs, verifyVars, sendVars>>

\* the drain loop resumes from `await processMetaMessage(jobData)`
LoopResume(l) ==
  /\ l \in loops
  /\ l.pc = "awaitSend"
  /\ calls[l.cur].st # "pending"
  /\ IF calls[l.cur].st = "ok"
       THEN \* await new Promise(resolve => setTimeout(resolve, 1000))
            /\ loops' = (loops \ {l}) \cup {[l EXCEPT !.pc = "pace", !.left = PacingMs]}
            /\ UNCHANGED <<queue, calls, processing, sinceEnd>>
       ELSE LET r == CatchAndContinue(l, queue, calls, processing)
            IN /\ queue' = r.queue
               /\ calls' = r.calls
               /\ loops' = (loops \ {l}) \cup r.loops
               /\ processing' = r.processing
               /\ sinceEnd' = r.sinceEnd
  /\ UNCHANGED <<enqueued, addCalls, token, reqs, verifyVars, sendVars>>

\* the pacing timer fires and the loop goes back to the while test
PaceDone(l) ==
  /\ l \in loops
  /\ l.pc = "pace"
  /\ l.left = 0
  /\ LET r == WhileStep(l.lid, queue, calls, processing)
     IN /\ queue' = r.queue
        /\ calls' = r.calls
        /\ loops' = (loops \ {l}) \cup r.loops
        /\ processing' = r.processing
        /\ sinceEnd' = r.sinceEnd
  /\ UNCHANGED <<enqueued, addCalls, token, reqs, verifyVars, sendVars>>

\* time passes
Min(a, b) == IF a < b THEN a ELSE b
Max(a, b) == IF a > b THEN a ELSE b
Tick ==
  /\ \/ sinceEnd < PacingMs
     \/ \E l \in loops : l.pc = "pace" /\ l.left > 0
  /\ sinceEnd' = Min(sinceEnd + TickMs, PacingMs)
  /\ loops' = {IF l.pc = "pace" THEN [l EXCEPT !.left = Max(l.left - TickMs, 0)] ELSE l : l \in loops}
  /\ UNCHANGED <<queue, processing, calls, enqueued, addCalls, token, reqs, verifyVars, sendVars>>

\* the operator sets or removes the credential in the environment
SetToken(tk) ==
  /\ tk # token
  /\ token' = tk
  /\ UNCHANGED <<queue, processing, loops, calls, enqueued, addCalls, sinceEnd, reqs, verifyVars, sendVars>>


\* ---------------------------------------------------------- webhook payload
\* an optional (possibly absent) value: absent, or present with value x
None == <<>>
Some(x) == <<x>>

\* a JavaScript scalar found where the payload type says `text?: string`
TUndef == [k |-> "undef", v |-> ""]
TStr(str) == [k |-> "str", v |-> str]
TNum(str) == [k |-> "num", v |-> str]
JsTruthy(t) == (t.k = "str" /\ t.v # "") \/ (t.k = "num" /\ t.v # "0")
\* a || b
JsOr(a, b) == IF JsTruthy(a) THEN a ELSE b

\* element of entry.messaging: { sender?: {id}, message?: {text?} }
MsgItem(sender, message) == [sender |-> sender, message |-> message]
\* changes[0].value and an element of value.messages:
\* { messages?, from?: {id}, text?, message?: {text?} }
IgObj(messages, from, text, message) ==
  [messages |-> messages, from |-> from, text |-> text, message |-> message]
\* element of body.entry; obj = FALSE is a null (non-object) element
Entry(messaging, changes) == [obj |-> TRUE, messaging |-> messaging, changes |-> changes]
NullEntry == [obj |-> FALSE, messaging |-> None, changes |-> None]

\* the (psid, message, platform) arguments of one messageHandler call
Event(psid, text, platform) == [psid |-> psid, text |-> text, platform |-> platform]
NoEvent == Event("", "", "none")

Skip == [kind |-> "skip", ev |-> NoEvent]
Throw == [kind |-> "throw", ev |-> NoEvent]
Call(ev) == [kind |-> "call", ev |-> ev]

\* the block reading the last element of entry.messaging
MessengerPartLast(e) ==
  IF ~e.obj THEN Throw
  ELSE IF e.messaging = None THEN Skip
  ELSE IF Len(e.messaging[1]) = 0 THEN Skip
  ELSE LET messaging == e.messaging[1][Len(e.messaging[1])]
       IN IF messaging.message # None /\ messaging.sender # None
               /\ Truthy(messaging.sender[1].id)
            THEN LET text == JsOr(messaging.message[1].text, TStr(""))
                 IN IF text.k # "str"
                      THEN Throw
                      ELSE Call(Event(messaging.sender[1].id, text.v, "messenger"))
            ELSE Skip

\* the block without the `messaging?.message &&` half of its test
MessengerPartSenderOnly(e) ==
  IF ~e.obj THEN Throw
  ELSE IF e.messaging = None THEN Skip
  ELSE IF Len(e.messaging[1]) = 0 THEN Skip
  ELSE LET messaging == e.messaging[1][1]
       IN IF messaging.sender # None /\ Truthy(messaging.sender[1].id)
            THEN LET text == IF messaging.message = None THEN TStr("")
                             ELSE JsOr(messaging.message[1].text, TStr(""))
                 IN IF text.k # "str"
                      THEN Throw
                      ELSE Call(Event(messaging.sender[1].id, text.v, "messenger"))
            ELSE Skip

\* `if ('messaging' in entry && entry.messaging) { ... }` : what the block
\* does with one entry: nothing, a messageHandler call, or a TypeError
MessengerPart(e) ==
  IF ~e.obj THEN Throw
  ELSE IF e.messaging = None THEN Skip
  ELSE IF Len(e.messaging[1]) = 0 THEN Skip
  ELSE LET messaging == e.messaging[1][1]
       IN IF messaging.message # None /\ messaging.sender # None
               /\ Truthy(messaging.sender[1].id)
            THEN LET text == JsOr(messaging.message[1].text, TStr(""))
                 IN IF text.k # "str"
                      THEN Throw   \* text.slice is not a function
                      ELSE Call(Event(messaging.sender[1].id, text.v, "messenger"))
            ELSE Skip

\* the block with text = igMessage.text || ''
InstagramPartTextOnly(e) ==
  IF ~e.obj THEN Throw
  ELSE IF e.changes = None THEN Skip
  ELSE LET change == IF Len(e.changes[1]) = 0 THEN None ELSE e.changes[1][1].value
           first == IF change = None THEN None
                    ELSE IF change[1].messages = None THEN None
                    ELSE IF Len(change[1].messages[1]) = 0 THEN None
                    ELSE Some(change[1].messages[1][1])
           igMessage ==
             IF first # None THEN first
             ELSE IF change # None /\ change[1].from # None /\ Truthy(change[1].from[1].id)
               THEN change
               ELSE None
       IN IF igMessage # None /\ igMessage[1].from # None /\ Truthy(igMessage[1].from[1].id)
            THEN LET text == JsOr(igMessage[1].text, TStr(""))
                 IN IF text.k # "str"
                      THEN Throw
                      ELSE Call(Event(igMessage[1].from[1].id, text.v, "instagram"))
            ELSE Skip

\* the block reading only Format 1, `change?.messages?.[0]`
InstagramPartMessagesOnly(e) ==
  IF ~e.obj THEN Throw
  ELSE IF e.changes = None THEN Skip
  ELSE LET change == IF Len(e.changes[1]) = 0 THEN None ELSE e.changes[1][1].value
           igMessage == IF change = None THEN None
                        ELSE IF change[1].messages = None THEN None
                        ELSE IF Len(change[1].messages[1]) = 0 THEN None
                        ELSE Some(change[1].messages[1][1])
       IN IF igMessage # None /\ igMessage[1].from # None /\ Truthy(igMessage[1].from[1].id)
            THEN LET inner == IF igMessage[1].message = None THEN TUndef
                              ELSE igMessage[1].message[1].text
                     text == JsOr(igMessage[1].text, JsOr(inner, TStr("")))
                 IN IF text.k # "str"
                      THEN Throw
                      ELSE Call(Event(igMessage[1].from[1].id, text.v, "instagram"))
            ELSE Skip

\* `if ('changes' in entry && entry.changes) { ... }`
InstagramPart(e) ==
  IF ~e.obj THEN Throw
  ELSE IF e.changes = None THEN Skip
  ELSE LET change == IF Len(e.changes[1]) = 0 THEN None ELSE e.changes[1][1].value
           first == IF change = None THEN None
                    ELSE IF change[1].messages = None THEN None
                    ELSE IF Len(change[1].messages[1]) = 0 THEN None
                    ELSE Some(change[1].messages[1][1])
           igMessage ==
             IF first # None THEN first
             ELSE IF change # None /\ change[1].from # None /\ Truthy(change[1].from[1].id)
               THEN change
               ELSE None
       IN IF igMessage # None /\ igMessage[1].from # None /\ Truthy(igMessage[1].from[1].id)
            THEN LET inner == IF igMessage[1].message = None THEN TUndef
                              ELSE igMessage[1].message[1].text
                     text == JsOr(igMessage[1].text, JsOr(inner, TStr("")))
                 IN IF text.k # "str"
                      THEN Throw
                      ELSE Call(Event(igMessage[1].from[1].id, text.v, "instagram"))
            ELSE Skip

\* `await messageHandler(...)`: the loop is suspended at each call
HandlerNotAwaited == FALSE
AwaitsHandler == TRUE

\* The `for (const entry of body.entry)` loop run from entry i, block ph,
\* up to its next suspension, its end, or the catch block.  acc collects the
\* handler calls made in this run; sync tells whether the handler throws
\* synchronously when called.  (i, ph) of the result is where to resume.
RECURSIVE RunFrom(_, _, _, _, _)
RunFrom(es, i, ph, acc, sync) ==
  IF i > Len(es)
    THEN [invoked |-> acc, end |-> "done", threw |-> FALSE, i |-> i, ph |-> ph]
    ELSE LET part == IF ph = "messaging" THEN MessengerPart(es[i]) ELSE InstagramPart(es[i])
             ni   == IF ph = "messaging" THEN i ELSE i + 1
             nph  == IF ph = "messaging" THEN "changes" ELSE "messaging"
         IN IF part.kind = "throw"
              THEN [invoked |-> acc, end |-> "caught", threw |-> FALSE, i |-> i, ph |-> ph]
            ELSE IF part.kind = "skip"
              THEN RunFrom(es, ni, nph, acc, sync)
            ELSE IF sync # "returns"
              THEN [invoked |-> Append(acc, part.ev), end |-> "caught", threw |-> TRUE,
                    i |-> i, ph |-> ph]
            ELSE IF AwaitsHandler
              THEN [invoked |-> Append(acc, part.ev), end |-> "await", threw |-> FALSE,
                    i |-> ni, ph |-> nph]
            ELSE RunFrom(es, ni, nph, Append(acc, part.ev), sync)

\* the try block without `if (!body.entry || body.entry.length === 0) return`:
\* `for (const entry of undefined)` raises a TypeError
TryBlockNoEntryCheck(body, sync) ==
  IF ~body.defined
    THEN [invoked |-> <<>>, end |-> "caught", threw |-> FALSE, i |-> 1, ph |-> "messaging"]
  ELSE IF body.entry = None
    THEN [invoked |-> <<>>, end |-> "caught", threw |-> FALSE, i |-> 1, ph |-> "messaging"]
  ELSE RunFrom(body.entry[1], 1, "messaging", <<>>, sync)

\* a try block that first tests `body.object === 'page'`
TryBlockPageOnly(body, sync) ==
  IF ~body.defined
    THEN [invoked |-> <<>>, end |-> "caught", threw |-> FALSE, i |-> 1, ph |-> "messaging"]
  ELSE IF body.entry = None \/ body.object # "page"
    THEN [invoked |-> <<>>, end |-> "done", threw |-> FALSE, i |-> 1, ph |-> "messaging"]
  ELSE IF Len(body.entry[1]) = 0
    THEN [invoked |-> <<>>, end |-> "done", threw |-> FALSE, i |-> 1, ph |-> "messaging"]
  ELSE RunFrom(body.entry[1], 1, "messaging", <<>>, sync)

\* the try block of receiveWebhook from its start to its first suspension
TryBlock(body, sync) ==
  IF ~body.defined
    THEN [invoked |-> <<>>, end |-> "caught", threw |-> FALSE, i |-> 1, ph |-> "messaging"]
  ELSE IF body.entry = None
    THEN [invoked |-> <<>>, end |-> "done", threw |-> FALSE, i |-> 1, ph |-> "messaging"]
  ELSE IF Len(body.entry[1]) = 0
    THEN [invoked |-> <<>>, end |-> "done", threw |-> FALSE, i |-> 1, ph |-> "messaging"]
  ELSE RunFrom(body.entry[1], 1, "messaging", <<>>, sync)

\* what a request has done, in order: the response written, a handler call,
\* the way a handler call ended
LogEntry(t, status, ev) == [t |-> t, status |-> status, ev |-> ev]
Respond(status) == LogEntry("respond", status, NoEvent)
RunLog(run) ==
  [n \in 1..Len(run.invoked) |-> LogEntry("invoke", 0, run.invoked[n])]
    \o (IF run.threw THEN <<LogEntry("threw", 0, NoEvent)>> ELSE <<>>)

\* res.sendStatus(200) is the first statement of receiveWebhook
AckStatus == 200
RunThenAck(runlog) == runlog \o <<Respond(AckStatus)>>
AckThenRun(runlog) == <<Respond(AckStatus)>> \o runlog

\* handler calls of a request that have not settled
Pending(log) ==
  Cardinality({n \in 1..Len(log) : log[n].t = "invoke"})
    - Cardinality({n \in 1..Len(log) : log[n].t \in {"resolved", "rejected", "threw"}})

\* the values a handler can throw or reject with: an Error object, or
\* null / undefined (`throw undefined`, `reject()`)
ThrownValues == {"Error", "nullish"}

\* what reached the catch block at the end of a run of the try block: a
\* TypeError raised by the loop itself, or the value the handler threw
Thrown(run, sync) ==
  IF run.end # "caught" THEN "none"
  ELSE IF ~run.threw THEN "TypeError"
  ELSE IF sync = "throwsNullish" THEN "nullish"
  ELSE "Error"

\* the catch block: logger.error(..., {error: error.message, stack:
\* error.stack}); reading a property of null / undefined raises inside the
\* catch block, and then the promise of receiveWebhook is rejected
CatchBlock(thrown) == IF thrown = "nullish" THEN "rejected" ELSE "resolved"

\* state of the promise receiveWebhook returned
PromiseOf(end, thrown) ==
  IF end = "await" THEN "pending"
  ELSE IF end = "done" THEN "resolved"
  ELSE CatchBlock(thrown)

\* an endpoint that handles one POST at a time: while a handler call of an
\* earlier request is pending, a new request is acknowledged and then waits
ReceiveSerialized(limit, body, sync) ==
  /\ Len(reqs) < limit
  /\ LET run == IF \E r \in 1..Len(reqs) : reqs[r].pc = "await"
                  THEN [invoked |-> <<>>, end |-> "await", threw |-> FALSE,
                        i |-> 1, ph |-> "messaging"]
                  ELSE TryBlock(body, sync)
     IN reqs' = Append(reqs, [body |-> body, pc |-> run.end, i |-> run.i, ph |-> run.ph,
                              log |-> AckThenRun(RunLog(run)),
                              thrown |-> Thrown(run, sync),
                              promise |-> PromiseOf(run.end, Thrown(run, sync))])
  /\ UNCHANGED <<queueVars, verifyVars, sendVars>>

\* a POST arrives: receiveWebhook(req, res, messageHandler) runs up to its
\* first suspension, whatever earlier requests are doing; limit bounds the
\* number of POSTs explored
ReceiveWithin(limit, body, sync) ==
  /\ Len(reqs) < limit
  /\ LET run == TryBlock(body, sync)
     IN reqs' = Append(reqs, [body |-> body, pc |-> run.end, i |-> run.i, ph |-> run.ph,
                              log |-> AckThenRun(RunLog(run)),
                              thrown |-> Thrown(run, sync),
                              promise |-> PromiseOf(run.end, Thrown(run, sync))])
  /\ UNCHANGED <<queueVars, verifyVars, sendVars>>

Receive(body, sync) == ReceiveWithin(MaxReq, body, sync)

\* the promise of a pending handler call settles and receiveWebhook resumes:
\* on to the next call, to the end of the loop, or into the catch block
\* val is the value a rejected handler promise carries
HandlerSettle(r, how, val, sync) ==
  /\ r \in 1..Len(reqs)
  /\ Pending(reqs[r].log) > 0
  /\ how = "resolved" => val = "Error"
  /\ LET q == reqs[r]
         settled == Append(q.log, LogEntry(how, 0, NoEvent))
     IN IF q.pc # "await"
          THEN reqs' = [reqs EXCEPT ![r].log = settled]
        ELSE IF how = "rejected"
          THEN reqs' = [reqs EXCEPT ![r].log = settled, ![r].pc = "caught",
                                    ![r].thrown = val,
                                    ![r].promise = PromiseOf("caught", val)]
        ELSE LET run == RunFrom(q.body.entry[1], q.i, q.ph, <<>>, sync)
             IN reqs' = [reqs EXCEPT ![r].log = settled \o RunLog(run),
                                     ![r].pc = run.end,
                                     ![r].i = run.i,
                                     ![r].ph = run.ph,
                                     ![r].thrown = Thrown(run, sync),
                                     ![r].promise = PromiseOf(run.end, Thrown(run, sync))]
  /\ UNCHANGED <<queueVars, verifyVars, sendVars>>

\* ------------------------------------------------- webhook verification
\* const VERIFY_TOKEN = process.env.VERIFY_TOKEN || 'your-verify-token'
DefaultVerifyToken == "your-verify-token"
\* a verify token taken from the environment with no fallback
VerifyTokenNoDefault == verifyEnv
VERIFY_TOKEN == IF Truthy(verifyEnv) THEN verifyEnv ELSE DefaultVerifyToken

\* the test of verifyWebhook with the mode half left out
VerifyAcceptsTokenOnly(mode, tk) == tk = VERIFY_TOKEN
\* `mode === 'subscribe' && token === VERIFY_TOKEN`
VerifyAccepts(mode, tk) == mode = "subscribe" /\ tk = VERIFY_TOKEN

\* res.send(x): the body written; send(undefined) writes an empty body
SendBody(x) == IF x = Undefined THEN "" ELSE x

\* a verifyWebhook that, on success, also queues a message
VerifyAndQueue(mode, tk, challenge) ==
  /\ Len(verifs) < MaxVerify
  /\ verifs' = Append(verifs,
                 IF VerifyAccepts(mode, tk)
                   THEN [mode |-> mode, token |-> tk, challenge |-> challenge,
                         status |-> 200, type |-> "text/plain", body |-> SendBody(challenge)]
                   ELSE [mode |-> mode, token |-> tk, challenge |-> challenge,
                         status |-> 403, type |-> "text/plain", body |-> "Forbidden"])
  /\ queue' = IF VerifyAccepts(mode, tk) /\ processing
                THEN Append(queue, [id |-> 0, psid |-> "u1", text |-> "hi",
                                    instagramAccountId |-> Undefined])
                ELSE queue
  /\ UNCHANGED <<processing, loops, calls, enqueued, addCalls, token, sinceEnd,
                 webVars, verifyEnv, sendVars>>

\* a GET on the webhook route: verifyWebhook(req, res) with the three
\* hub.* query parameters (Undefined when the parameter is not given)
Verify(mode, tk, challenge) ==
  /\ Len(verifs) < MaxVerify
  /\ verifs' = Append(verifs,
                 IF VerifyAccepts(mode, tk)
                   THEN [mode |-> mode, token |-> tk, challenge |-> challenge,
                         status |-> 200, type |-> "text/plain", body |-> SendBody(challenge)]
                   ELSE [mode |-> mode, token |-> tk, challenge |-> challenge,
                         status |-> 403, type |-> "text/plain", body |-> "Forbidden"])
  /\ UNCHANGED <<queueVars, webVars, verifyEnv, sendVars>>

\* ---------------------------------------------- MetaService.sendMessage
baseUrl == "https://graph.facebook.com/v22.0"
instagramBaseUrl == "https://graph.instagram.com/v22.0"
\* axios request option `timeout: 15000`
RequestTimeoutMs == 15000

\* the url ignoring instagramAccountId
SendUrlPrimaryOnly(instagramAccountId) == <<baseUrl, "me", "messages">>
\* instagramAccountId ? `${instagramBaseUrl}/${instagramAccountId}/messages`
\*                    : `${baseUrl}/me/messages`     (path segments as a tuple)
SendUrl(instagramAccountId) ==
  IF Truthy(instagramAccountId)
    THEN <<instagramBaseUrl, instagramAccountId, "messages">>
    ELSE <<baseUrl, "me", "messages">>

\* what axios.post ends with: a 2xx response, or an error object
\* { response?.data?.error?.message, message }
AxiosOk == [kind |-> "ok", provider |-> None, message |-> ""]
AxiosError(kind, provider, message) == [kind |-> kind, provider |-> provider, message |-> message]
\* response.data of a 2xx response
ResponseData(psid) == [recipient_id |-> psid, message_id |-> "mid.1"]

\* the argument processMetaMessage gives to metaService.sendMessage, with
\* the Instagram account id left out
MetaParamsNoAccount(job, tk) ==
  [psid |-> job.psid, text |-> job.text, accessToken |-> tk, instagramAccountId |-> Undefined]
\* metaService.sendMessage({psid, text, accessToken, instagramAccountId})
MetaParams(job, tk) ==
  [psid |-> job.psid, text |-> job.text, accessToken |-> tk,
   instagramAccountId |-> job.instagramAccountId]
\* the request axios.post is called with for given params
RequestOf(params) ==
  [url |-> SendUrl(params.instagramAccountId),
   payload |-> [recipient |-> [id |-> params.psid], message |-> [text |-> params.text]],
   auth |-> <<"Bearer", params.accessToken>>]

\* a catch block that logs and returns nothing
SendCatchSwallows(error) == [st |-> "returned", result |-> None, thrown |-> None]
\* catch: throw new Error(`Failed to send Meta message: ${
\*          error?.response?.data?.error?.message || error.message}`)
SendCatch(error) ==
  [st |-> "thrown", result |-> None,
   thrown |-> Some(<<"Failed to send Meta message: ",
                     IF error.provider # None /\ Truthy(error.provider[1])
                       THEN error.provider[1] ELSE error.message>>)]

\* the rest of the try block once axios.post has resolved: the success log
\* reads text.slice(0, 50), then `return response.data`
SendReturn(params) ==
  IF params.text.k # "str"
    THEN SendCatch(AxiosError("TypeError", None, "text.slice is not a function"))
    ELSE [st |-> "returned", result |-> Some(ResponseData(params.psid)), thrown |-> None]

\* the error axios rejects with when no response came within `timeout`
AxiosTimeout == AxiosError("timeout", None, "timeout of 15000ms exceeded")
\* a request without the `timeout` option is never aborted
TimeoutNever(waited) == FALSE
\* the request has waited for the whole `timeout` and axios aborts it
TimeoutReached(waited) == waited >= RequestTimeoutMs

\* metaService.sendMessage(params) up to `await axios.post(...)`
SendMessage(params) ==
  /\ Len(sends) < MaxSend
  /\ sends' = Append(sends,
                [params |-> params,
                 url |-> SendUrl(params.instagramAccountId),
                 payload |-> [recipient |-> [id |-> params.psid], message |-> [text |-> params.text]],
                 auth |-> <<"Bearer", params.accessToken>>,
                 timeout |-> RequestTimeoutMs,
                 waited |-> 0,
                 outcome |-> None,
                 st |-> "pending", result |-> None, thrown |-> None])
  /\ UNCHANGED <<queueVars, webVars, verifyVars>>

\* the axios.post promise of send k settles and sendMessage runs to its end
\* (a response or a network error before the timeout, the timeout error
\* once it is reached)
SendSettle(k, outcome) ==
  /\ k \in 1..Len(sends)
  /\ sends[k].st = "pending"
  /\ (outcome.kind = "timeout") = TimeoutReached(sends[k].waited)
  /\ LET end == IF outcome.kind = "ok" THEN SendReturn(sends[k].params) ELSE SendCatch(outcome)
     IN sends' = [sends EXCEPT ![k].outcome = Some(outcome),
                               ![k].st = end.st,
                               ![k].result = end.result,
                               ![k].thrown = end.thrown]
  /\ UNCHANGED <<queueVars, webVars, verifyVars>>

\* time passes while requests are in flight, up to their timeout
SendTick ==
  /\ \E k \in 1..Len(sends) : sends[k].st = "pending" /\ sends[k].waited < RequestTimeoutMs
  /\ sends' = [k \in 1..Len(sends) |->
                IF sends[k].st = "pending"
                  THEN [sends[k] EXCEPT !.waited = RequestTimeoutMs]
                  ELSE sends[k]]
  /\ UNCHANGED <<queueVars, webVars, verifyVars>>

\* ---- payloads explored
MessengerEntry == Entry(Some(<<MsgItem(Some([id |-> "u1"]), Some([text |-> TStr("hi")]))>>), None)
InstagramEntry == Entry(None, Some(<<[value |-> Some(IgObj(None, Some([id |-> "u2"]), TStr("yo"), None))]>>))
BothEntry ==
  Entry(Some(<<MsgItem(Some([id |-> "u3"]), Some([text |-> TUndef]))>>),
        Some(<<[value |-> Some(IgObj(Some(<<IgObj(None, Some([id |-> "u4"]), TUndef, Some([text |-> TStr("in")]))>>),
                                     None, TUndef, None))]>>))
SampleEntries == {MessengerEntry, BothEntry, NullEntry}

RECURSIVE SeqsUpTo(_, _)
SeqsUpTo(S, n) ==
  IF n = 0 THEN {<<>>}
  ELSE LET shorter == SeqsUpTo(S, n - 1)
       IN shorter \cup {Append(sq, x) : sq \in {t \in shorter : Len(t) = n - 1}, x \in S}

Body(entry) == [defined |-> TRUE, object |-> "page", entry |-> entry]
UndefinedBody == [defined |-> FALSE, object |-> Undefined, entry |-> None]
Bodies == {UndefinedBody, Body(None)} \cup {Body(Some(es)) : es \in SeqsUpTo(SampleEntries, MaxEntries)}

\* ---- one-entry payloads for the normalization rules
\* values of sender.id / from.id: absent, empty, an id
SenderOpts(id) == {None, Some([id |-> ""]), Some([id |-> id])}
\* values of a `text?: string` slot, and one that is not a string
TextOpts(str) == {TUndef, TStr(""), TStr(str), TNum("5")}
MessageOpts == {None} \cup {Some([text |-> t]) : t \in TextOpts("hi")}
\* entry.messaging: absent, [], or one element
MessagingOpts ==
  {None, Some(<<>>)}
    \cup {Some(<<MsgItem(sd, m)>>) : sd \in SenderOpts("u1"), m \in MessageOpts}

\* Format 1 (Branch A): value.messages = [{from, text}]
BranchA(from, text) ==
  Some(<<[value |-> Some(IgObj(Some(<<IgObj(None, from, text, None)>>), None, TUndef, None))]>>)
\* Format 2 (Branch B): value = {from, text}, no messages field
BranchB(from, text) == Some(<<[value |-> Some(IgObj(None, from, text, None))]>>)
\* entry.changes: absent, [], an element without value, the two formats, an
\* empty messages array beside a direct message, text nested in message.text
ChangesOpts ==
  {None, Some(<<>>), Some(<<[value |-> None]>>)}
    \cup {BranchA(f, t) : f \in SenderOpts("u2"), t \in TextOpts("yo")}
    \cup {BranchB(f, t) : f \in SenderOpts("u2"), t \in TextOpts("yo")}
    \cup {Some(<<[value |-> Some(IgObj(Some(<<>>), Some([id |-> "u2"]), TStr("yo"), None))]>>),
          Some(<<[value |-> Some(IgObj(None, Some([id |-> "u2"]), TUndef, Some([text |-> TStr("in")])))]>>)}

\* arrays with a second element beside the one at index 0
SecondMessage == IgObj(None, Some([id |-> "u9"]), TStr("second"), None)
MultiEntries ==
  {Entry(Some(<<MsgItem(Some([id |-> "u1"]), Some([text |-> TStr("hi")])),
                MsgItem(Some([id |-> "u9"]), Some([text |-> TStr("second")]))>>), None),
   Entry(Some(<<MsgItem(None, Some([text |-> TStr("hi")])),
                MsgItem(Some([id |-> "u9"]), Some([text |-> TStr("second")]))>>), None),
   Entry(None, Some(<<[value |-> Some(IgObj(None, Some([id |-> "u2"]), TStr("yo"), None))],
                      [value |-> Some(SecondMessage)]>>)),
   Entry(None, Some(<<[value |-> Some(IgObj(Some(<<IgObj(None, Some([id |-> "u2"]), TStr("yo"), None),
                                                    SecondMessage>>),
                                            None, TUndef, None))]>>)),
   Entry(None, Some(<<[value |-> Some(IgObj(Some(<<IgObj(None, None, TStr("yo"), None),
                                                    SecondMessage>>),
                                            Some([id |-> "u2"]), TStr("yo"), None))]>>))}
\* a resolved message with both text and message.text
NestedTextEntries ==
  {Entry(None, Some(<<[value |-> Some(IgObj(None, Some([id |-> "u2"]), t, Some([text |-> TStr("in")])))]>>)) :
     t \in {TStr(""), TStr("yo")}}
    \cup {Entry(None, Some(<<[value |-> Some(IgObj(None, Some([id |-> "u2"]), TUndef, Some([text |-> TUndef])))]>>))}

NormEntries ==
  {Entry(m, None) : m \in MessagingOpts}
    \cup {Entry(None, c) : c \in ChangesOpts}
    \cup {Entry(Some(<<>>), Some(<<>>)), BothEntry, InstagramEntry, NullEntry}
    \cup MultiEntries
    \cup NestedTextEntries
NormBodies ==
  {Body(None), Body(Some(<<>>))} \cup {Body(Some(<<e>>)) : e \in NormEntries}

WebInit == reqs = <<>>

\* what a call of the handler does before it returns: return a promise,
\* throw an Error, throw null / undefined
SyncOutcomes == {"returns", "throws", "throwsNullish"}

ReceiveStep == \E body \in Bodies : \E sync \in SyncOutcomes : Receive(body, sync)
HandlerSettleStep ==
  \E r \in 1..Len(reqs) : \E how \in {"resolved", "rejected"} : \E val \in ThrownValues :
    \E sync \in SyncOutcomes : HandlerSettle(r, how, val, sync)

NormReceiveStep ==
  \E body \in NormBodies : \E sync \in SyncOutcomes : Receive(body, sync)

QueueInit ==
  /\ queue = <<>>
  /\ processing = FALSE
  /\ loops = {}
  /\ calls = <<>>
  /\ enqueued = <<>>
  /\ addCalls = <<>>
  /\ token \in Tokens
  /\ sinceEnd = PacingMs

AddStep == \E in \in JobInputs : Add(in)
CallSettleStep == \E k \in 1..Len(calls) : \E o \in {"ok"} \cup HttpFailures : CallSettle(k, o)
LoopResumeStep == \E l \in loops : LoopResume(l)
PaceDoneStep == \E l \in loops : PaceDone(l)
SetTokenStep == \E tk \in Tokens : SetToken(tk)

\* values of process.env.VERIFY_TOKEN, and of the hub.* query parameters
VerifyEnvs == {Undefined, "", "s3cret"}
Modes == {Undefined, "subscribe", "unsubscribe"}
QueryTokens == {Undefined, "s3cret", DefaultVerifyToken, "wrong"}
Challenges == {Undefined, "xyz", "Forbidden"}
VerifyStep ==
  \E mode \in Modes : \E tk \in QueryTokens : \E challenge \in Challenges :
    Verify(mode, tk, challenge)

\* parameters of sendMessage explored: both recipients with and without an
\* Instagram account id, and one variation each of text and credential
SendParams ==
  {[psid |-> ps, text |-> TStr("hi"), accessToken |-> "tok", instagramAccountId |-> ig] :
     ps \in {"u1", "u2"}, ig \in {Undefined, "ig1"}}
    \cup {[psid |-> "u1", text |-> t, accessToken |-> tk, instagramAccountId |-> ig] :
            t \in {TStr("yo")}, tk \in {"tok", "tok2"}, ig \in {Undefined, "ig1", ""}}
    \cup {[psid |-> "u1", text |-> TNum("5"), accessToken |-> "tok", instagramAccountId |-> Undefined]}
\* ends of the HTTP call: success, a Graph API error body, an error
\* response without a Graph API message, a network error, the timeout
AxiosOutcomes ==
  {AxiosOk,
   AxiosError("provider", Some("(#100) No matching user found"), "Request failed with status code 400"),
   AxiosError("http", Some(""), "Request failed with status code 502"),
   AxiosError("network", None, "socket hang up"),
   AxiosTimeout}
SendMessageStep == \E params \in SendParams : SendMessage(params)
SendSettleStep == \E k \in 1..Len(sends) : \E o \in AxiosOutcomes : SendSettle(k, o)

\* no verification GET and no direct send has happened; a verification
\* secret is configured
HookInit ==
  /\ verifyEnv = "s3cret"
  /\ verifs = <<>>
  /\ sends = <<>>

Init == QueueInit /\ WebInit /\ HookInit

Next ==
  \/ AddStep
  \/ CallSettleStep
  \/ LoopResumeStep
  \/ PaceDoneStep
  \/ Tick
  \/ SetTokenStep

Spec == Init /\ [][Next]_vars

\* the webhook endpoint on its own
WebNext ==
  \/ ReceiveStep
  \/ HandlerSettleStep

\* the credential plays no part in the handler: it starts configured
WebSpecInit == Init /\ token = "tok"
WebSpec == WebSpecInit /\ [][WebNext]_vars

\* POSTs arriving while handler calls of earlier POSTs are pending; the
\* handler returns a promise that resolves or rejects later
ConcBodies == {Body(Some(<<MessengerEntry>>)), Body(Some(<<BothEntry>>)),
               Body(Some(<<MessengerEntry, BothEntry>>))}
ConcReceiveStep == \E body \in ConcBodies : ReceiveWithin(MaxConc, body, "returns")
ConcSettleStep ==
  \E r \in 1..Len(reqs) : \E how \in {"resolved", "rejected"} :
    HandlerSettle(r, how, "Error", "returns")
ConcNext ==
  \/ ConcReceiveStep
  \/ ConcSettleStep
ConcSpec == WebSpecInit /\ [][ConcNext]_vars

\* one-entry payloads under every value of the payload's object field
Objects == {Undefined, "", "page", "instagram", "user"}
ObjectBodies ==
  {[defined |-> TRUE, object |-> o, entry |-> Some(<<e>>)] :
     o \in Objects, e \in {MessengerEntry, InstagramEntry, BothEntry}}
ObjectReceiveStep ==
  \E body \in ObjectBodies : \E sync \in SyncOutcomes : Receive(body, sync)
ObjectNext ==
  \/ ObjectReceiveStep
  \/ HandlerSettleStep
ObjectSpec == WebSpecInit /\ [][ObjectNext]_vars

\* the normalization rules of the endpoint, one entry at a time
NormNext ==
  \/ NormReceiveStep
  \/ HandlerSettleStep

NormSpec == WebSpecInit /\ [][NormNext]_vars

\* the verification endpoint under every configuration of its secret
VerifyInit ==
  /\ QueueInit /\ token = "tok"
  /\ WebInit
  /\ verifyEnv \in VerifyEnvs
  /\ verifs = <<>>
  /\ sends = <<>>
VerifyNext == VerifyStep
VerifySpec == VerifyInit /\ [][VerifyNext]_vars

\* the delivery client called directly
SendNext ==
  \/ SendMessageStep
  \/ SendSettleStep
  \/ SendTick
SendSpec == WebSpecInit /\ [][SendNext]_vars

\* The delivery client under the scheduling the runtime guarantees: time
\* advances and the timer of the `timeout` option fires.  No response is
\* assumed to arrive.  The endpoint and the content of a message do not
\* influence whether a call settles, so few of each are drawn.
LiveSendParams ==
  {[psid |-> "u1", text |-> t, accessToken |-> "tok", instagramAccountId |-> ig] :
     t \in {TStr("hi"), TNum("5")}, ig \in {Undefined, "ig1"}}
LiveSendStep == \E params \in LiveSendParams : SendMessage(params)
LiveSendSettleStep ==
  \E k \in 1..Len(sends) :
    \E o \in {AxiosOk, AxiosError("network", None, "socket hang up"), AxiosTimeout} :
      SendSettle(k, o)
LiveSendNext ==
  \/ LiveSendStep
  \/ LiveSendSettleStep
  \/ SendTick
FairSendSpec ==
  /\ WebSpecInit
  /\ [][LiveSendNext]_vars
  /\ WF_vars(SendTick)
  /\ \A k \in 1..MaxSend : WF_vars(SendSettle(k, AxiosTimeout))

\* the queue fed with arguments queueMessage accepts but the data model
\* excludes: an empty recipient, an empty text
AnyJobInputs ==
  {[psid |-> "u1", text |-> "hi", instagramAccountId |-> Undefined],
   [psid |-> "", text |-> "", instagramAccountId |-> Undefined]}
AnyAddStep == \E in \in AnyJobInputs : Add(in)
AnySettleStep == \E k \in 1..Len(calls) : \E o \in {"ok", "provider"} : CallSettle(k, o)
AnyInputNext ==
  \/ AnyAddStep
  \/ AnySettleStep
  \/ LoopResumeStep
  \/ PaceDoneStep
  \/ Tick
  \/ SetTokenStep
AnyInputSpec == Init /\ [][AnyInputNext]_vars

\* The queue under the scheduling the runtime guarantees: a settled
\* promise's continuation runs, a due timer fires, time advances; and (the
\* assumption of the liveness claim) every issued provider request
\* terminates.  The content of a job and the kind of a failure do not
\* influence the control flow of the queue, so one of each is drawn.
LiveInputs == {[psid |-> "u1", text |-> "hi", instagramAccountId |-> Undefined]}
LiveAddStep == \E in \in LiveInputs : Add(in)
LiveSettleStep == \E k \in 1..Len(calls) : \E o \in {"ok", "timeout"} : CallSettle(k, o)

LiveNext ==
  \/ LiveAddStep
  \/ LiveSettleStep
  \/ LoopResumeStep
  \/ PaceDoneStep
  \/ Tick
  \/ SetTokenStep

FairSpec ==
  /\ Init
  /\ [][LiveNext]_vars
  /\ WF_vars(LiveSettleStep)
  /\ WF_vars(LoopResumeStep)
  /\ WF_vars(PaceDoneStep)
  /\ WF_vars(Tick)

\* verification GETs arriving while the queue is at work
MixedVerifyStep ==
  \E mode \in {"subscribe", "unsubscribe"} : \E tk \in {"s3cret", "wrong"} :
    Verify(mode, tk, "xyz")
MixedNext ==
  \/ LiveAddStep
  \/ LiveSettleStep
  \/ LoopResumeStep
  \/ PaceDoneStep
  \/ Tick
  \/ MixedVerifyStep
MixedSpec == WebSpecInit /\ [][MixedNext]_vars

\* the queue fed by a caller that writes into each message whether the
\* credential was configured at the moment it queued the message
CredNote(tk) == IF Truthy(tk) THEN "queued with credential" ELSE "queued without credential"
CredInputs ==
  {[psid |-> "u1", text |-> CredNote(tk), instagramAccountId |-> Undefined] : tk \in Tokens}
CredAddStep == \E in \in CredInputs : in.text = CredNote(token) /\ Add(in)
CredNext ==
  \/ CredAddStep
  \/ LiveSettleStep
  \/ LoopResumeStep
  \/ PaceDoneStep
  \/ Tick
  \/ SetTokenStep
CredSpec == Init /\ [][CredNext]_vars

\* ------------------------------------------------------------ vocabulary
\* provider requests issued by the queue that have not completed
InFlight == {k \in 1..Len(calls) : calls[k].http /\ calls[k].st = "pending"}
\* attempts made for the item enqueued i-th
AttemptsOf(i) == {k \in 1..Len(calls) : calls[k].job.id = i}
\* positions of the buffer holding the item enqueued i-th
BufferedAt(i) == {n \in 1..Len(queue) : queue[n].id = i}
\* the drain loop has taken notice of the outcome of attempt k
Handled(k) == calls[k].st # "pending" /\ ~\E l \in loops : l.pc = "awaitSend" /\ l.cur = k
\* the queue is Idle with nothing left to do
Drained == ~processing /\ queue = <<>> /\ loops = {}

\* C1: single-flight. At most one drain loop is active and at most one
\* provider request issued by the queue is in flight, in every interleaving
\* of add() with the loop's suspension points; an active loop always holds
\* the flag, so an add() arriving meanwhile starts no second loop.
C1_SingleFlight ==
  /\ Cardinality(loops) <= 1
  /\ Cardinality(InFlight) <= 1
  /\ loops # {} => processing
C1_Witness ==
  /\ Len(enqueued) >= 2
  /\ Cardinality(InFlight) = 1
  /\ Len(queue) >= 1

\* C2: strict FIFO. The k-th attempt is for the k-th enqueued item, an
\* attempt starts only when every earlier attempt has settled, and the
\* buffer holds exactly the items not yet attempted, in enqueue order.
C2_StrictFifo ==
  /\ \A k \in 1..Len(calls) :
       /\ k <= Len(enqueued)
       /\ calls[k].job = enqueued[k]
       /\ k < Len(calls) => calls[k].st # "pending"
  /\ Len(calls) <= Len(enqueued)
  /\ queue = SubSeq(enqueued, Len(calls) + 1, Len(enqueued))
C2_Witness ==
  /\ Len(calls) = 3
  /\ calls[2].st = "failed"
  /\ calls[1].st = "ok"

\* C3 (as stated): once the queue has drained, the number of
\* metaService.sendMessage invocations equals the number of enqueued
\* messages.
C3_Original ==
  Drained => Cardinality({k \in 1..Len(calls) : calls[k].http}) = Len(enqueued)

\* C3 (amended): every enqueued item is either still in the buffer or has
\* been attempted (processMetaMessage) exactly once, so a drained queue has
\* made exactly N attempts for N enqueues; an attempt invokes
\* metaService.sendMessage exactly when a credential is configured at that
\* moment, and not at all otherwise.
C3_OneAttemptEach ==
  /\ \A i \in 1..Len(enqueued) :
       Cardinality(AttemptsOf(i)) + Cardinality(BufferedAt(i)) = 1
  /\ \A k \in 1..Len(calls) : calls[k].job.id \in 1..Len(enqueued)
  /\ Drained => Len(calls) = Len(enqueued)
  /\ \A k \in 1..Len(calls) : calls[k].http <=> Truthy(calls[k].tok)
C3_Witness ==
  /\ Drained
  /\ Len(calls) = 3
  /\ \E k \in 1..Len(calls) : ~calls[k].http
  /\ \E k \in 1..Len(calls) : calls[k].http

\* C4 (as stated): an attempt that follows another attempt starts only when
\* at least the pacing interval has passed since that attempt ended,
\* whether it succeeded or failed.
C4_Original ==
  [][(Len(calls') > Len(calls) /\ Len(calls) > 0) => sinceEnd >= PacingMs]_vars

\* C5: failure isolation. Once the loop has handled a failed attempt, the
\* next enqueued item (if any) has its attempt started; the flag is never
\* left set without a live loop, and a non-empty buffer always has one.
C5_FailureIsolation ==
  /\ \A k \in 1..Len(calls) :
       (calls[k].st = "failed" /\ Handled(k) /\ k < Len(enqueued)) => Len(calls) > k
  /\ processing => loops # {}
  /\ queue # <<>> => loops # {}
C5_Witness ==
  /\ Len(calls) = 3
  /\ calls[1].cause = "credential"
  /\ calls[2].cause \in HttpFailures
  /\ calls[3].st = "ok"

C7_FireAndForget ==
  /\ Len(addCalls) = Len(enqueued)
  /\ \A i \in 1..Len(addCalls) : addCalls[i] = "resolved"
C7_Witness ==
  /\ Len(addCalls) = 3
  /\ calls[1].cause = "credential"
  /\ Len(calls) = 2
  /\ calls[2].st = "pending"
  /\ Len(queue) = 1

\* C8: liveness. With every provider request terminating, each enqueued
\* item is eventually attempted and settled, and a busy queue eventually is
\* Idle with an empty buffer.
C8_Liveness ==
  /\ \A i \in 1..MaxEnq :
       (Len(enqueued) >= i) ~> (Len(calls) >= i /\ Handled(i))
  /\ (processing \/ queue # <<>>) ~> Drained
C8_Witness ==
  /\ \E l \in loops : l.pc = "pace" /\ l.left = 0
  /\ Len(queue) = 1
  /\ Len(enqueued) = 2

\* the handler calls a request has made, in order
Invoked(log) ==
  LET inv == SelectSeq(log, LAMBDA x : x.t = "invoke")
  IN [n \in 1..Len(inv) |-> inv[n].ev]

\* the events of a payload in payload entry order (within an entry the
\* messaging block comes before the changes block), up to the first entry
\* on which the code raises
RECURSIVE EventsFrom(_, _)
EventsFrom(es, i) ==
  IF i > Len(es) THEN <<>>
  ELSE LET m == MessengerPart(es[i])
           g == InstagramPart(es[i])
       IN IF m.kind = "throw" THEN <<>>
          ELSE (IF m.kind = "call" THEN <<m.ev>> ELSE <<>>)
                 \o (IF g.kind = "throw" THEN <<>>
                     ELSE (IF g.kind = "call" THEN <<g.ev>> ELSE <<>>)
                            \o EventsFrom(es, i + 1))
Events(body) ==
  IF ~body.defined \/ body.entry = None THEN <<>> ELSE EventsFrom(body.entry[1], 1)

\* C9: acknowledge before processing. For every POST the first thing done
\* is the response, its status is 200 for every payload (well-formed,
\* empty, malformed), and nothing done later (a handler call, its outcome,
\* an error) writes a response again.
C9_AckFirst ==
  \A r \in 1..Len(reqs) :
    /\ Len(reqs[r].log) >= 1
    /\ reqs[r].log[1] = Respond(200)
    /\ \A n \in 2..Len(reqs[r].log) : reqs[r].log[n].t # "respond"
C9_Witness ==
  \E r \in 1..Len(reqs) :
    /\ reqs[r].pc = "caught"
    /\ Len(reqs[r].log) = 5
    /\ reqs[r].log[2].t = "invoke"
    /\ reqs[r].log[5].t = "rejected"

\* C10: within one POST the handler calls made so far are an initial part
\* of the payload's events in entry order, each made once; a call is made
\* only when the previous call of the request has settled (resolved), so at
\* most one call of a request is pending; and a request whose processing
\* ran to the end has made the call for every event.
C10_InOrderOneAtATime ==
  \A r \in 1..Len(reqs) :
    LET log == reqs[r].log
        inv == Invoked(log)
        exp == Events(reqs[r].body)
    IN /\ Len(inv) <= Len(exp)
       /\ \A n \in 1..Len(inv) : inv[n] = exp[n]
       /\ \A n \in 3..Len(log) : log[n].t = "invoke" => log[n-1].t = "resolved"
       /\ Pending(log) <= 1
       /\ reqs[r].pc = "done" => inv = exp
C10_Witness ==
  \E r \in 1..Len(reqs) :
    /\ reqs[r].pc = "done"
    /\ Len(Invoked(reqs[r].log)) = 3
    /\ Invoked(reqs[r].log)[1].platform = "messenger"
    /\ Invoked(reqs[r].log)[2].platform = "instagram"

\* the payload of request r has exactly one entry, TheEntry(r)
OneEntry(r) == reqs[r].body.entry # None /\ Len(reqs[r].body.entry[1]) = 1
TheEntry(r) == reqs[r].body.entry[1][1]
\* the handler calls a request made for one platform
EventsOn(log, platform) == SelectSeq(Invoked(log), LAMBDA ev : ev.platform = platform)
\* a messageHandler call of the request failed
HandlerFailed(log) == \E n \in 1..Len(log) : log[n].t \in {"rejected", "threw"}

\* C11: an entry whose messaging[0] has a sender id S (present and not
\* empty) and a message object yields exactly one messenger event, with
\* recipient S and the text of message.text, or "" when message.text is
\* absent; when the sender id is missing (absent or empty) or the message
\* is missing, the entry yields no messenger event.  (A message.text that
\* is not a string is outside this rule.)
C11_MessengerEvent ==
  \A r \in 1..Len(reqs) :
    (OneEntry(r) /\ TheEntry(r).obj /\ TheEntry(r).messaging # None
       /\ Len(TheEntry(r).messaging[1]) > 0) =>
      LET m == TheEntry(r).messaging[1][1]
          hasSender == m.sender # None /\ m.sender[1].id # ""
          got == EventsOn(reqs[r].log, "messenger")
      IN /\ (hasSender /\ m.message # None /\ m.message[1].text.k = "str") =>
              got = <<Event(m.sender[1].id, m.message[1].text.v, "messenger")>>
         /\ (hasSender /\ m.message # None /\ m.message[1].text.k = "undef") =>
              got = <<Event(m.sender[1].id, "", "messenger")>>
         /\ (~hasSender \/ m.message = None) => got = <<>>
C11_Witness ==
  \E r \in 1..Len(reqs) :
    /\ reqs[r].body = Body(Some(<<Entry(Some(<<MsgItem(Some([id |-> "u1"]), Some([text |-> TUndef]))>>), None)>>))
    /\ reqs[r].pc = "done"
    /\ Invoked(reqs[r].log) = <<Event("u1", "", "messenger")>>

\* C12: branch equivalence. For every sender S and text T the entry in
\* Format 1 (changes[0].value.messages = [{from:{id:S}, text:T}]) and the
\* entry in Format 2 (changes[0].value = {from:{id:S}, text:T}, no messages
\* field) are treated alike, and for an id S and a string T each yields
\* exactly the one event (S, T, 'instagram').
C12_BranchEquivalence ==
  /\ \A f \in SenderOpts("u2") : \A t \in TextOpts("yo") :
       InstagramPart(Entry(None, BranchA(f, t))) = InstagramPart(Entry(None, BranchB(f, t)))
  /\ \A r \in 1..Len(reqs) : \A T \in {"", "yo"} :
       (OneEntry(r)
          /\ TheEntry(r) \in {Entry(None, BranchA(Some([id |-> "u2"]), TStr(T))),
                              Entry(None, BranchB(Some([id |-> "u2"]), TStr(T)))}) =>
         Invoked(reqs[r].log) = <<Event("u2", T, "instagram")>>
C12_Witness ==
  \E r \in 1..Len(reqs) :
    /\ OneEntry(r)
    /\ TheEntry(r) = Entry(None, BranchB(Some([id |-> "u2"]), TStr("yo")))
    /\ reqs[r].pc = "done"
    /\ Invoked(reqs[r].log) = <<Event("u2", "yo", "instagram")>>

\* C13: a payload whose entry field is missing or empty makes no handler
\* call and processing ends normally; in an entry an absent or empty
\* messaging array yields no messenger event, an absent or empty changes
\* array yields no instagram event, and an entry with neither (or both
\* empty) yields no event at all.
C13_NothingToNormalize ==
  \A r \in 1..Len(reqs) :
    LET b == reqs[r].body
        log == reqs[r].log
    IN /\ (b.defined /\ (b.entry = None \/ Len(b.entry[1]) = 0)) =>
            (log = <<Respond(200)>> /\ reqs[r].pc = "done")
       /\ (OneEntry(r) /\ TheEntry(r).obj) =>
            LET noMessaging == TheEntry(r).messaging = None \/ Len(TheEntry(r).messaging[1]) = 0
                noChanges == TheEntry(r).changes = None \/ Len(TheEntry(r).changes[1]) = 0
            IN /\ noMessaging => EventsOn(log, "messenger") = <<>>
               /\ noChanges => EventsOn(log, "instagram") = <<>>
               /\ (noMessaging /\ noChanges) => (log = <<Respond(200)>> /\ reqs[r].pc = "done")
C13_Witness ==
  \E r \in 1..Len(reqs) :
    /\ reqs[r].body = Body(Some(<<Entry(Some(<<>>), Some(<<>>))>>))
    /\ reqs[r].pc = "done"
    /\ reqs[r].log = <<Respond(200)>>

\* the events of a payload if an entry on which the code raises counted as
\* "no event for this entry" and the entries after it were still read
RECURSIVE EventsSkippingMalformed(_, _)
EventsSkippingMalformed(es, i) ==
  IF i > Len(es) THEN <<>>
  ELSE LET m == MessengerPart(es[i])
           g == InstagramPart(es[i])
       IN (IF m.kind = "call" THEN <<m.ev>> ELSE <<>>)
            \o (IF g.kind = "call" THEN <<g.ev>> ELSE <<>>)
            \o EventsSkippingMalformed(es, i + 1)

\* C14 (as stated): a malformed entry costs only its own event: the
\* handler not failing, once processing of a payload has ended every
\* well-formed entry has had its handler call.  The code raises a TypeError
\* on a null entry and on a text that is not a string, and the catch block
\* ends the whole loop.
C14_Original ==
  \A r \in 1..Len(reqs) :
    (reqs[r].body.defined /\ reqs[r].body.entry # None /\ ~HandlerFailed(reqs[r].log)) =>
      (reqs[r].pc # "await" =>
         Invoked(reqs[r].log) = EventsSkippingMalformed(reqs[r].body.entry[1], 1))

\* C15: verification handshake. A verification GET is answered 200 with
\* the challenge as body exactly when mode is 'subscribe' and the token is
\* the secret in force (the configured VERIFY_TOKEN, or the built-in
\* default when none is configured); every other request is answered 403
\* with the fixed body 'Forbidden', whatever the challenge.
C15_Handshake ==
  \A n \in 1..Len(verifs) :
    LET v == verifs[n]
        secret == IF verifyEnv \in {Undefined, ""} THEN "your-verify-token" ELSE verifyEnv
        match == v.mode = "subscribe" /\ v.token = secret
    IN /\ match => (v.status = 200 /\ v.body = (IF v.challenge = Undefined THEN "" ELSE v.challenge))
       /\ ~match => (v.status = 403 /\ v.body = "Forbidden")
C15_Witness ==
  /\ verifyEnv = "s3cret"
  /\ Len(verifs) = 2
  /\ verifs[1] = [mode |-> "subscribe", token |-> "s3cret", challenge |-> "xyz",
                  status |-> 200, type |-> "text/plain", body |-> "xyz"]
  /\ verifs[2].mode = "unsubscribe" /\ verifs[2].token = "s3cret" /\ verifs[2].status = 403

\* C16: the endpoint of a send is decided by instagramAccountId alone: with
\* an account id (present and not empty) the request goes to the Instagram
\* base URL under that account id, otherwise to the Facebook base URL's
\* /me/messages; two sends with the same account id go to the same
\* endpoint whatever their recipient, text and credential.
C16_EndpointSelection ==
  /\ \A k \in 1..Len(sends) :
       LET ig == sends[k].params.instagramAccountId
       IN sends[k].url = (IF ig \in {Undefined, ""}
                            THEN <<"https://graph.facebook.com/v22.0", "me", "messages">>
                            ELSE <<"https://graph.instagram.com/v22.0", ig, "messages">>)
  /\ \A j, k \in 1..Len(sends) :
       sends[j].params.instagramAccountId = sends[k].params.instagramAccountId =>
         sends[j].url = sends[k].url
C16_Witness ==
  /\ Len(sends) = 2
  /\ sends[1].params.instagramAccountId = "ig1" /\ sends[2].params.instagramAccountId = "ig1"
  /\ sends[1].params.psid # sends[2].params.psid
  /\ sends[1].params.text # sends[2].params.text
  /\ sends[1].params.accessToken # sends[2].params.accessToken
  /\ sends[1].url = <<instagramBaseUrl, "ig1", "messages">>

\* C17: sendMessage never swallows a failure. When the HTTP call ends with
\* an error (provider rejection, error response, network error, timeout)
\* sendMessage throws, and the error thrown carries the provider's message
\* when one is available and the transport error's message otherwise; a
\* result is returned only when the HTTP call succeeded, and it is the
\* response data.
C17_NeverSwallows ==
  \A k \in 1..Len(sends) :
    sends[k].st # "pending" =>
      LET o == sends[k].outcome[1]
      IN /\ o.kind # "ok" =>
              /\ sends[k].st = "thrown"
              /\ sends[k].result = None
              /\ sends[k].thrown[1][2] =
                   (IF o.provider # None /\ o.provider[1] # "" THEN o.provider[1] ELSE o.message)
         /\ sends[k].st = "returned" =>
              /\ o.kind = "ok"
              /\ sends[k].result = Some([recipient_id |-> sends[k].params.psid, message_id |-> "mid.1"])
         /\ sends[k].st \in {"returned", "thrown"}
C17_Witness ==
  /\ Len(sends) = 2
  /\ sends[1].st = "thrown" /\ sends[1].outcome[1].kind = "provider"
  /\ sends[1].thrown[1][2] = "(#100) No matching user found"
  /\ sends[2].st = "thrown" /\ sends[2].outcome[1].kind = "timeout"
  /\ sends[2].thrown[1][2] = "timeout of 15000ms exceeded"

\* C18: missing credential. An attempt made while META_ACCESS_TOKEN is
\* unset has failed at once (it is never pending) with the credential
\* error and issued no provider request, while an attempt made with a
\* credential issues one; and once the loop has handled such a failure the
\* item enqueued next (if any) has its attempt started.
C18_MissingCredential ==
  \A k \in 1..Len(calls) :
    /\ calls[k].tok \in {Undefined, ""} =>
         (~calls[k].http /\ calls[k].st = "failed" /\ calls[k].cause = "credential")
    /\ calls[k].tok \notin {Undefined, ""} => calls[k].http
    /\ (calls[k].cause = "credential" /\ Handled(k) /\ calls[k].job.id < Len(enqueued)) =>
         \E n \in (k + 1)..Len(calls) : calls[n].job.id = calls[k].job.id + 1
C18_Witness ==
  /\ Len(calls) = 2
  /\ calls[1].cause = "credential" /\ ~calls[1].http
  /\ calls[2].job.id = 2 /\ calls[2].http /\ calls[2].st = "ok"
  /\ Drained

\* C19 (as stated): the promise returned by receiveWebhook never rejects.
\* The catch block reads error.message and error.stack, so a handler that
\* throws or rejects with null / undefined makes the catch block itself
\* raise, and the promise is rejected.
C19_Original == \A r \in 1..Len(reqs) : reqs[r].promise # "rejected"

\* C20 (as stated): a queued message whose attempt failed is attempted
\* again: when the queue has drained, every failed item has had at least
\* two attempts.  The catch block of the drain loop only logs.
C20_Original ==
  Drained =>
    \A k \in 1..Len(calls) :
      calls[k].st = "failed" => Cardinality(AttemptsOf(calls[k].job.id)) >= 2

\* C21 (as stated): every message the queue hands to the delivery client
\* has a non-empty recipient and a non-empty text, whatever was enqueued.
\* queueMessage, add, processMetaMessage and sendMessage check neither.
C21_Original ==
  \A k \in 1..Len(calls) :
    calls[k].http =>
      /\ Truthy(MetaParams(calls[k].job, calls[k].tok).psid)
      /\ Truthy(MetaParams(calls[k].job, calls[k].tok).text)

\* C26: each queued item reaches the delivery client unchanged. The attempt
\* for an item works on exactly the record made at its enqueue, and the
\* request issued for it carries that item's own recipient wrapped as
\* {id: psid}, its own text wrapped as {text}, and the endpoint chosen by
\* its own Instagram account id.
C26_ItemUnchanged ==
  \A k \in 1..Len(calls) :
    LET given == enqueued[calls[k].job.id]
        rq == RequestOf(MetaParams(calls[k].job, calls[k].tok))
    IN /\ calls[k].job = given
       /\ calls[k].http =>
            /\ rq.payload = [recipient |-> [id |-> given.psid], message |-> [text |-> given.text]]
            /\ rq.url = (IF given.instagramAccountId \in {Undefined, ""}
                           THEN <<"https://graph.facebook.com/v22.0", "me", "messages">>
                           ELSE <<"https://graph.instagram.com/v22.0", given.instagramAccountId,
                                  "messages">>)
            /\ rq.auth = <<"Bearer", calls[k].tok>>
C26_Witness ==
  /\ Len(calls) = 3
  /\ \A k \in 1..3 : calls[k].http
  /\ calls[1].job.psid = "u2" /\ calls[1].job.instagramAccountId = "ig1"
  /\ calls[2].job.psid = "u1" /\ calls[2].job.instagramAccountId = Undefined
  /\ calls[3].job.psid = "u2"
  /\ RequestOf(MetaParams(calls[1].job, calls[1].tok)).url = <<instagramBaseUrl, "ig1", "messages">>

\* C27: the buffer changes only by add() appending one item at the tail
\* and by the drain loop removing the head (or both in one step, when
\* add() starts the loop): nothing else removes or reorders an item; and
\* every enqueued item is either still in the buffer, exactly once, or has
\* been taken by the loop for its attempt.
C27_BufferFrame ==
  [][ /\ LET q1 == IF Len(enqueued') = Len(enqueued) + 1
                     THEN Append(queue, enqueued'[Len(enqueued')])
                     ELSE queue
         IN \/ queue' = q1
            \/ /\ q1 # <<>>
               /\ queue' = Tail(q1)
               /\ Len(calls') = Len(calls) + 1
               /\ calls'[Len(calls')].job = Head(q1)
      /\ Len(enqueued') \in {Len(enqueued), Len(enqueued) + 1}
      /\ \A i \in 1..Len(enqueued') :
           Cardinality(BufferedAt(i)') + Cardinality(AttemptsOf(i)') = 1
    ]_vars
C27_Witness ==
  /\ Len(enqueued) = 3
  /\ Len(calls) = 2
  /\ calls[1].st = "ok"
  /\ calls[2].st = "pending"
  /\ queue = <<enqueued[3]>>

\* C30: idle implies empty. In every state between two steps of add() and
\* of the drain loop, a cleared processing flag means an empty buffer and
\* no loop; a non-empty buffer has the flag set and a live drain loop.
C30_IdleImpliesEmpty ==
  /\ ~processing => (queue = <<>> /\ loops = {})
  /\ queue # <<>> => (processing /\ Cardinality(loops) = 1)
C30_Witness ==
  /\ Drained
  /\ Len(calls) = 2
  /\ calls[1].st = "ok"
  /\ calls[2].st = "failed"

\* C22 (as stated): the two shapes are handled exclusively: an entry with
\* a messaging field gets no instagram event, and every entry yields at
\* most one event.  The code has two independent `if` blocks, so an entry
\* with both a valid messaging[0] and a valid changes[0] yields two.
C22_Original ==
  \A r \in 1..Len(reqs) :
    (OneEntry(r) /\ TheEntry(r).obj) =>
      /\ Len(Invoked(reqs[r].log)) <= 1
      /\ TheEntry(r).messaging # None => EventsOn(reqs[r].log, "instagram") = <<>>

\* changes[0].value of a one-entry request, when the entry has one
HasValue(r) ==
  /\ OneEntry(r) /\ TheEntry(r).obj
  /\ TheEntry(r).changes # None
  /\ Len(TheEntry(r).changes[1]) > 0
  /\ TheEntry(r).changes[1][1].value # None
TheValue(r) == TheEntry(r).changes[1][1].value[1]

\* C23 (as stated): a value whose messages field is present but empty
\* yields no event, even with value.from.id present; and a messages[0]
\* without from.id yields no event.  The code falls back to the value
\* itself whenever messages[0] is falsy, also for an empty array.
C23_Original ==
  \A r \in 1..Len(reqs) :
    HasValue(r) =>
      /\ (TheValue(r).messages # None /\ Len(TheValue(r).messages[1]) = 0) =>
           EventsOn(reqs[r].log, "instagram") = <<>>
      /\ (TheValue(r).messages # None /\ Len(TheValue(r).messages[1]) > 0
             /\ TheValue(r).messages[1][1].from = None) =>
           EventsOn(reqs[r].log, "instagram") = <<>>

\* a sequence cut to its first element
FirstOf(sq) == IF Len(sq) = 0 THEN sq ELSE <<sq[1]>>
\* changes[0] with value.messages cut to its first element
FirstMessageOnly(c) ==
  IF c.value = None \/ c.value[1].messages = None THEN c
  ELSE [value |-> Some([c.value[1] EXCEPT !.messages = Some(FirstOf(c.value[1].messages[1]))])]
\* an entry with messaging, changes and value.messages cut to index 0
FirstOnly(e) ==
  IF ~e.obj THEN e
  ELSE Entry(IF e.messaging = None THEN None ELSE Some(FirstOf(e.messaging[1])),
             IF e.changes = None THEN None
             ELSE IF Len(e.changes[1]) = 0 THEN e.changes
             ELSE Some(<<FirstMessageOnly(e.changes[1][1])>>))

\* C24: only index 0 is consulted. The handler calls made for an entry are
\* those of the same entry with messaging, changes and value.messages cut
\* down to their first element: an element at index 1 or higher produces
\* no event (the sender "u9" of the second elements is never reported) and
\* does not change the event made from index 0, also when index 0 yields
\* none.
C24_IndexZeroOnly ==
  \A r \in 1..Len(reqs) :
    OneEntry(r) =>
      LET inv == Invoked(reqs[r].log)
          exp == Events(Body(Some(<<FirstOnly(TheEntry(r))>>)))
      IN /\ Len(inv) <= Len(exp)
         /\ \A n \in 1..Len(inv) : inv[n] = exp[n]
         /\ reqs[r].pc = "done" => inv = exp
         /\ \A n \in 1..Len(inv) : inv[n].psid # "u9"
         /\ (TheEntry(r).obj /\ TheEntry(r).messaging # None
                /\ Len(TheEntry(r).messaging[1]) = 2
                /\ TheEntry(r).messaging[1][1].sender = None) => inv = <<>>
C24_Witness ==
  \E r \in 1..Len(reqs) :
    /\ OneEntry(r)
    /\ HasValue(r)
    /\ TheValue(r).messages # None
    /\ Len(TheValue(r).messages[1]) = 2
    /\ reqs[r].pc = "done"
    /\ Invoked(reqs[r].log) = <<Event("u2", "yo", "instagram")>>

\* the message object the instagram block resolves for a value: the first
\* element of a non-empty messages array, otherwise the value itself
ResolvedMessage(r) ==
  IF TheValue(r).messages # None /\ Len(TheValue(r).messages[1]) > 0
    THEN TheValue(r).messages[1][1]
    ELSE TheValue(r)
\* the resolved message has a sender id, and its text slots hold strings
\* or nothing
TextCase(r) ==
  /\ HasValue(r)
  /\ TheEntry(r).messaging = None
  /\ ResolvedMessage(r).from # None
  /\ ResolvedMessage(r).from[1].id # ""
  /\ ResolvedMessage(r).text.k \in {"undef", "str"}
  /\ ResolvedMessage(r).message # None => ResolvedMessage(r).message[1].text.k \in {"undef", "str"}

\* C25 (as stated): the text of the event is resolvedMessage.text when it
\* is present, also when it is the empty string.  The code uses `||`, so
\* an empty text falls through to message.text.
C25_Original ==
  \A r \in 1..Len(reqs) :
    TextCase(r) =>
      LET m == ResolvedMessage(r)
          text == IF m.text.k = "str" THEN m.text.v
                  ELSE IF m.message # None /\ m.message[1].text.k = "str" THEN m.message[1].text.v
                  ELSE ""
      IN Invoked(reqs[r].log) = <<Event(m.from[1].id, text, "instagram")>>

\* C25: the text of an instagram event is resolvedMessage.text when it is
\* present and not empty, otherwise resolvedMessage.message.text when that
\* is present and not empty, otherwise the empty string; the event is
\* made also when no text is found.
C25_TextOrder ==
  \A r \in 1..Len(reqs) :
    TextCase(r) =>
      LET m == ResolvedMessage(r)
          text == IF m.text.k = "str" /\ m.text.v # "" THEN m.text.v
                  ELSE IF m.message # None /\ m.message[1].text.k = "str" THEN m.message[1].text.v
                  ELSE ""
      IN Invoked(reqs[r].log) = <<Event(m.from[1].id, text, "instagram")>>
C25_Witness ==
  \E r \in 1..Len(reqs) :
    /\ TextCase(r)
    /\ ResolvedMessage(r).text = TUndef
    /\ ResolvedMessage(r).message = Some([text |-> TStr("in")])
    /\ reqs[r].pc = "done"
    /\ Invoked(reqs[r].log) = <<Event("u2", "in", "instagram")>>

\* C29: a send never hangs. Every sendMessage call that is waiting for the
\* provider eventually settles, with a result or with a failure, whether
\* or not a response ever arrives; and a call whose request ran into the
\* timeout has settled as a failure.
C29_NeverHangs ==
  /\ \A k \in 1..MaxSend :
       (Len(sends) >= k /\ sends[k].st = "pending")
         ~> (Len(sends) >= k /\ sends[k].st \in {"returned", "thrown"})
  /\ [](\A k \in 1..Len(sends) :
          (sends[k].outcome # None /\ sends[k].outcome[1].kind = "timeout") =>
            (sends[k].st = "thrown" /\ sends[k].result = None))
C29_Witness ==
  /\ Len(sends) = 2
  /\ sends[1].outcome = Some(AxiosTimeout) /\ sends[1].st = "thrown"
  /\ sends[1].waited = 15000
  /\ sends[2].st = "returned"

\* C28: the verification handshake is pure. A step that answers a
\* verification GET changes nothing but the record of answers: the buffer,
\* the flag, the drain loop, the attempts, the webhook requests with their
\* handler calls, the sends and the secret stay as they were; and two GETs
\* with the same mode, token and challenge got the same answer, whatever
\* the queue was doing at the time.
C28_VerifyIsPure ==
  [][ verifs' # verifs =>
        /\ UNCHANGED <<queue, processing, loops, calls, enqueued, addCalls, token, sinceEnd>>
        /\ UNCHANGED <<reqs, sends, verifyEnv>>
        /\ \A i, j \in 1..Len(verifs') :
             (verifs'[i].mode = verifs'[j].mode /\ verifs'[i].token = verifs'[j].token
                /\ verifs'[i].challenge = verifs'[j].challenge) =>
               (verifs'[i].status = verifs'[j].status /\ verifs'[i].body = verifs'[j].body)
    ]_vars
C28_Witness ==
  /\ Len(verifs) = 2
  /\ verifs[1] = verifs[2]
  /\ verifs[1].status = 200
  /\ Len(calls) = 2
  /\ calls[2].st = "pending"
  /\ Len(queue) = 1

\* the catch block of a request ran to its end: logger.error was called
Logged(r) == reqs[r].pc = "caught" /\ reqs[r].promise = "resolved"

\* C31 (as stated): when a handler call of a payload throws or rejects, no
\* handler call is made for a later event of the payload, the error is
\* logged, and the 200 response stays the only response.  The argument of
\* logger.error reads error.message, so a null / undefined rejection value
\* makes the catch block raise before anything is logged.
C31_Original ==
  \A r \in 1..Len(reqs) :
    HandlerFailed(reqs[r].log) =>
      /\ \A n \in 1..Len(reqs[r].log) :
           reqs[r].log[n].t \in {"rejected", "threw"} =>
             \A m \in (n + 1)..Len(reqs[r].log) : reqs[r].log[m].t # "invoke"
      /\ reqs[r].log[1] = Respond(200)
      /\ \A n \in 2..Len(reqs[r].log) : reqs[r].log[n].t # "respond"
      /\ Logged(r)

\* C32: handler calls are serialized per request only. Every POST, also one
\* arriving while a handler call of an earlier POST is pending, has been
\* acknowledged and has made its first handler call as soon as it is
\* received; a request waits only for its own pending call (it is
\* suspended exactly when one of its own calls is pending, and has at most
\* one), never for a call of another request.
C32_PerRequestOnly ==
  \A r \in 1..Len(reqs) :
    LET log == reqs[r].log
        exp == Events(reqs[r].body)
    IN /\ log[1] = Respond(200)
       /\ exp # <<>> => (Invoked(log) # <<>> /\ Invoked(log)[1] = exp[1])
       /\ Pending(log) <= 1
       /\ (reqs[r].pc = "await") = (Pending(log) = 1)
C32_Witness ==
  /\ Len(reqs) = 2
  /\ Len(Events(reqs[1].body)) = 3
  /\ Len(Invoked(reqs[1].log)) = 1
  /\ Pending(reqs[1].log) = 1
  /\ Len(Invoked(reqs[2].log)) = 2
  /\ Pending(reqs[2].log) = 1

\* C33: the platform of an event follows from the shape of its entry, and
\* the payload's object field plays no part. Whatever object says ('page',
\* 'instagram', something else, nothing), a messaging entry yields its
\* 'messenger' event, a changes entry its 'instagram' event, an entry with
\* both yields both: the calls made are an initial part of that list and
\* all of it once processing has run to the end.
C33_ShapeDecidesPlatform ==
  \A r \in 1..Len(reqs) :
    OneEntry(r) =>
      LET inv == Invoked(reqs[r].log)
          exp == IF TheEntry(r) = MessengerEntry THEN <<Event("u1", "hi", "messenger")>>
                 ELSE IF TheEntry(r) = InstagramEntry THEN <<Event("u2", "yo", "instagram")>>
                 ELSE IF TheEntry(r) = BothEntry
                   THEN <<Event("u3", "", "messenger"), Event("u4", "in", "instagram")>>
                 ELSE inv
      IN /\ Len(inv) <= Len(exp)
         /\ \A n \in 1..Len(inv) : inv[n] = exp[n]
         /\ reqs[r].pc = "done" => inv = exp
         /\ (reqs[r].pc = "caught" /\ ~HandlerFailed(reqs[r].log)) => inv = exp
C33_Witness ==
  \E r \in 1..Len(reqs) :
    /\ reqs[r].body.object = "instagram"
    /\ OneEntry(r)
    /\ TheEntry(r) = MessengerEntry
    /\ reqs[r].pc = "done"
    /\ Invoked(reqs[r].log) = <<Event("u1", "hi", "messenger")>>

\* C35: with no verification secret configured (the variable unset or
\* empty) the handshake answers 200 exactly when mode is 'subscribe' and the
\* token is the fixed default 'your-verify-token', and 403 otherwise; and in
\* every configuration a request that carries no token is answered 403.
C35_DefaultTokenAccepted ==
  \A n \in 1..Len(verifs) :
    LET v == verifs[n]
    IN /\ ~Truthy(verifyEnv) =>
            /\ (v.status = 200) = (v.mode = "subscribe" /\ v.token = "your-verify-token")
            /\ v.status \in {200, 403}
       /\ v.token = Undefined => v.status = 403
C35_Witness ==
  /\ verifyEnv = Undefined
  /\ Len(verifs) = 2
  /\ verifs[1].mode = "subscribe" /\ verifs[1].token = "your-verify-token"
  /\ verifs[1].status = 200
  /\ verifs[2].mode = "subscribe" /\ verifs[2].token = Undefined
  /\ verifs[2].status = 403

\* C34: a queued item carries no credential (its fields are the recipient,
\* the text and the account id), and setting or removing the credential
\* leaves the buffer and the attempts made untouched. The attempt made for
\* an item uses the credential configured at the moment the item is taken
\* from the buffer: the request is issued with that credential when one is
\* configured, and the attempt fails at once, with no request, when none
\* is, whatever was configured when the item was queued.
C34_CredentialAtDequeue ==
  [][ /\ \A i \in 1..Len(queue) :
           DOMAIN queue[i] = {"id", "psid", "text", "instagramAccountId"}
      /\ token' # token => (queue' = queue /\ calls' = calls)
      /\ Len(calls') # Len(calls) =>
           LET c == calls'[Len(calls')]
           IN /\ Len(calls') = Len(calls) + 1
              /\ token' = token
              /\ c.tok = token
              /\ c.http = Truthy(token)
              /\ Truthy(token) => c.st = "pending"
              /\ ~Truthy(token) => (c.st = "failed" /\ c.cause = "credential")
    ]_vars
C34_Witness ==
  \E i, j \in 1..Len(calls) :
    /\ calls[i].job.text = "queued with credential"
    /\ calls[i].tok = Undefined
    /\ calls[i].st = "failed" /\ calls[i].cause = "credential"
    /\ calls[j].job.text = "queued without credential"
    /\ calls[j].tok = "tok"
    /\ calls[j].st = "ok"

====
